---- MODULE Spec2Model ----
(***************************************************************************)
(* Outbound webhook delivery of the billing platform:                      *)
(*   tenants/view_modules/webhook_delivery.py         (queue, deliver)     *)
(*   tenants/view_modules/webhook_management_views.py (manual retry)       *)
(*   core/tasks.py                                    (periodic sweep)     *)
(* Every database read and write of a handler is one step, so that         *)
(* concurrent requests interleave between them as they do on the database. *)
(***************************************************************************)
EXTENDS Integers, Sequences, FiniteSets, TLC

\* ------------------------------------------------------------------ bounds
Tenants == {"t1", "t2", "t3"}
\* idempotency keys, numbered in the order the provider issues its event ids
Keys == {1, 2}
EventTypes == {"payment.succeeded"}
Payloads == {"d1"}
Procs == {1, 2}
MaxOps == 4
MaxConcOps == 2
MaxQueued == 1

\* ------------------------------------------------------- program constants
MAX_ATTEMPTS == 3
NULL == 0

\* HTTP status codes the tenant endpoint may answer with
ResponseCodes == {200, 300}
\* what requests.post does: a response, or one of the three except branches
Outcomes == {"response", "timeout", "connection", "unexpected"}

EVENT_STATUS_CHOICES == {"pending", "sending", "sent", "failed"}

\* webhooks/models.py, WebhookEvent.STATUS_CHOICES
STATUS_CHOICES == {"pending", "sent", "failed", "retrying"}

\* primary keys of table webhook_events: one row
LegacyIds == {1}

VARIABLES
    tenants,   \* Tenant rows: webhook_url / webhook_secret set or NULL
    events,    \* table tenant_webhook_events, indexed by primary key
    logs,      \* table tenant_webhook_logs: per event, in insertion order
    posts,     \* the calls of requests.post: per event, the attempt numbers
    procs,     \* the requests / tasks in flight, with their local objects
    last,      \* the operation that returned last, and what it returned
    ops,       \* number of operations that went to work on an event
    overlapped, \* whether one of them started while another was in flight
    mark,      \* per event, the numbers of log rows and POSTs it had when it
               \* was last reset by a manual retry (0 and 0 before any)
    webhook_events, \* table webhook_events (webhooks.models.WebhookEvent)
    celery,    \* per row of it, the send_webhook_event tasks queued
    sweeps,    \* runs of retry_failed_webhooks so far, modulo 2
    answers,   \* per event, what requests.post came back with on each call:
               \* the status code, or NULL when it raised
    wire       \* the last request prepared or signature verified, in full

core == <<tenants, events, logs, posts, procs, last, ops, overlapped, mark,
          answers, wire>>
vars == <<tenants, events, logs, posts, procs, last, ops, overlapped, mark,
          webhook_events, celery, sweeps, answers, wire>>

\* timezone.now(): time does not run backwards, and every operation starts
\* later than the ones started before it
Now == ops

\* primary keys: no more rows than operations
EventIds == 1..MaxOps

NoRow ==
    [tenant |-> "none", event_type |-> "none", payload_json |-> "none",
     idempotency_key |-> 0, status |-> "none", attempts |-> 0,
     response_code |-> NULL, sent_at |-> NULL, succeeded_at |-> NULL]

\* nothing was prepared or verified yet
NoWire ==
    [op |-> "none", body |-> <<>>, signature |-> [key |-> "none", msg |-> <<>>],
     secret |-> "none", result |-> FALSE, kind |-> "none", same |-> FALSE,
     signed_with |-> "none", given_with |-> "none"]

IdleProc ==
    [op |-> "idle", pc |-> "idle", tenant |-> "none", key |-> 0,
     etype |-> "none", payload |-> "none", eid |-> 0,
     loc |-> NoRow, resp |-> NULL, err |-> "null",
     was |-> [status |-> "none", attempts |-> 0]]

\* mutant: only events still pending count as duplicates
KeyExists_PendingOnly(k) ==
    \E i \in DOMAIN events :
        events[i].idempotency_key = k /\ events[i].status = "pending"

\* TenantWebhookEvent.objects.filter(idempotency_key=...).exists()
KeyExists(k) == \E i \in DOMAIN events : events[i].idempotency_key = k

\* what the caller of deliver_webhook_to_tenant answers once deliver returns
ReturnOf(op) ==
    CASE op = "enqueue" -> "event"
      [] op = "retry" -> "200"
      [] OTHER -> "returned"

NoResult == [op |-> "none", ret |-> "none"]

\* a request or task ends: its local objects are dropped, its result is r
Finish(p, op, r) ==
    /\ procs' = [procs EXCEPT ![p] = IdleProc]
    /\ last' = [op |-> op, ret |-> r]

AllIdle == \A q \in Procs : procs[q].op = "idle"

\* a new operation may start on the first free worker; runs in which
\* operations overlap are explored up to MaxConcOps operations, the others up
\* to MaxOps
CanStart(p) ==
    /\ procs[p].op = "idle"
    /\ \A q \in Procs : procs[q].op = "idle" => ~(q < p)
    /\ ops < (IF AllIdle /\ ~overlapped THEN MaxOps ELSE MaxConcOps)
    /\ AllIdle \/ ~overlapped

\* the operation goes on to work on an event: it counts, the clock advances
Begin(p, rec) ==
    /\ procs' = [procs EXCEPT ![p] = rec]
    /\ last' = NoResult
    /\ ops' = ops + 1
    /\ overlapped' = (overlapped \/ ~AllIdle)

\* the operation answers at once, without touching an event
Answer(p, op, r) ==
    /\ last' = [op |-> op, ret |-> r]
    /\ UNCHANGED <<procs, ops, overlapped>>

----------------------------------------------------------------------------
\* a provider event is seen for the first time only after the ones before it
InOrder(k) ==
    \A j \in Keys : j < k =>
        KeyExists(j) \/ \E q \in Procs : procs[q].key = j

\* queue_webhook_event, lines 29-31: the existence check
queue_webhook_event(p, t, et, pl, k) ==
    /\ CanStart(p)
    /\ InOrder(k)
    /\ IF KeyExists(k)
       THEN Answer(p, "enqueue", "null")
       ELSE Begin(p, [IdleProc EXCEPT !.op = "enqueue", !.pc = "e_create",
                      !.tenant = t, !.key = k, !.etype = et, !.payload = pl])
    /\ UNCHANGED <<tenants, events, logs, posts, mark, webhook_events, celery, sweeps, answers, wire>>

\* mutant: the key is unique per tenant only (unique_together with tenant)
UniqueTogetherWithTenant(t, k) ==
    \E i \in DOMAIN events :
        events[i].idempotency_key = k /\ events[i].tenant = t

\* the unique=True constraint on idempotency_key, models.py line 988: the
\* insert of a row for tenant t with key k is rejected
UniqueViolation(t, k) == \E i \in DOMAIN events : events[i].idempotency_key = k

\* TenantWebhookEvent.objects.create(...), lines 34-40, with the field defaults
NewEvent(t, et, pl, k) ==
    [tenant |-> t, event_type |-> et, payload_json |-> pl,
     idempotency_key |-> k, status |-> "pending", attempts |-> 0,
     response_code |-> NULL, sent_at |-> NULL, succeeded_at |-> NULL]

\* queue_webhook_event, lines 34-40: the insert
queue_webhook_event_create(p) ==
    /\ procs[p].pc = "e_create"
    /\ IF UniqueViolation(procs[p].tenant, procs[p].key)
       THEN /\ Finish(p, "enqueue", "IntegrityError")
            /\ UNCHANGED events
       ELSE /\ events' = Append(events,
                    NewEvent(procs[p].tenant, procs[p].etype,
                             procs[p].payload, procs[p].key))
            /\ procs' = [procs EXCEPT ![p].pc = "d_get",
                                      ![p].eid = Len(events) + 1]
            /\ UNCHANGED last
    /\ UNCHANGED <<tenants, logs, posts, ops, overlapped, mark, webhook_events, celery, sweeps, answers, wire>>

----------------------------------------------------------------------------
\* deliver called by queue_webhook_event (line 43) or the retry view
\* (line 168); lines 58-65: load the event and, with it, its tenant
deliver_get(p) ==
    /\ procs[p].pc = "d_get"
    /\ LET e == procs[p].eid
       IN IF e \in DOMAIN events
          THEN /\ procs' = [procs EXCEPT ![p].pc = "d_begin",
                                         ![p].loc = events[e]]
               /\ UNCHANGED last
          ELSE Finish(p, procs[p].op, ReturnOf(procs[p].op))
    /\ UNCHANGED <<tenants, events, logs, posts, ops, overlapped, mark, webhook_events, celery, sweeps, answers, wire>>

\* deliver called directly or from a task, on any id; lines 58-65
deliver_webhook_to_tenant(p, e) ==
    /\ CanStart(p)
    /\ IF e \in DOMAIN events
       THEN Begin(p, [IdleProc EXCEPT !.op = "deliver", !.pc = "d_begin",
                      !.eid = e, !.loc = events[e]])
       ELSE Answer(p, "deliver", "returned")
    /\ UNCHANGED <<tenants, events, logs, posts, mark, webhook_events, celery, sweeps, answers, wire>>

\* mutant: off by one, a fourth attempt is let through
CapReached_OffByOne(row) == row.attempts > MAX_ATTEMPTS

\* line 76: the cap check
CapReached(row) == row.attempts >= MAX_ATTEMPTS

\* mutant: the attempt is not counted
Incremented_NoCount(row, now) ==
    [row EXCEPT !.status = "sending",
                !.sent_at = IF row.attempts + 1 = 1 THEN now ELSE @]

\* lines 82-86: the local object after the increment
Incremented(row, now) ==
    [row EXCEPT !.attempts = row.attempts + 1,
                !.status = "sending",
                !.sent_at = IF row.attempts + 1 = 1 THEN now ELSE @]

\* mutant: the attempt is counted before the early exits
MarkedFailed_Counted(row) ==
    [row EXCEPT !.status = "failed", !.attempts = row.attempts + 1]

\* mutant: marking an event failed also clears its counter
MarkedFailed_ResetAttempts(row) ==
    [row EXCEPT !.status = "failed", !.attempts = 0]

\* lines 69 and 77: the local object of an early exit
MarkedFailed(row) == [row EXCEPT !.status = "failed"]

\* deliver_webhook_to_tenant, lines 67-88: entry checks and intermediate save
deliver_begin(p) ==
    /\ procs[p].pc = "d_begin"
    /\ LET e == procs[p].eid
           row == procs[p].loc
       IN IF ~tenants[row.tenant].webhook_url \/ CapReached(row)
          THEN /\ events' = [events EXCEPT ![e] = MarkedFailed(row)]
               /\ Finish(p, procs[p].op, ReturnOf(procs[p].op))
          ELSE /\ events' = [events EXCEPT ![e] = Incremented(row, Now)]
               /\ procs' = [procs EXCEPT ![p].pc = "d_post",
                                         ![p].loc = Incremented(row, Now)]
               /\ UNCHANGED last
    /\ UNCHANGED <<tenants, logs, posts, ops, overlapped, mark, webhook_events, celery, sweeps, answers, wire>>

\* mutant: the upper bound of the success range is included
IsSuccess_UpTo300(code) == 200 <= code /\ code <= 300

\* line 133
IsSuccess(code) == 200 <= code /\ code < 300

\* lines 128-155: the local event object after the outcome of requests.post
AfterOutcome(row, out, code, now) ==
    CASE out = "response" /\ IsSuccess(code) ->
            [row EXCEPT !.status = "sent", !.succeeded_at = now,
                        !.response_code = code]
      [] out = "response" /\ ~IsSuccess(code) ->
            [row EXCEPT !.status = "pending", !.response_code = code]
      [] OTHER -> [row EXCEPT !.status = "pending"]

\* mutant: a timeout is logged without an error message
ErrorOf_TimeoutSilent(out, code) ==
    CASE out = "response" /\ ~(200 <= code /\ code < 300) -> "HTTP"
      [] out = "connection" -> "Connection error"
      [] out = "unexpected" -> "Unexpected error"
      [] OTHER -> "null"

\* lines 115, 143-155: error_message of the attempt
ErrorOf(out, code) ==
    CASE out = "response" /\ IsSuccess(code) -> "null"
      [] out = "response" /\ ~IsSuccess(code) -> "HTTP"
      [] out = "timeout" -> "Request timed out"
      [] out = "connection" -> "Connection error"
      [] OTHER -> "Unexpected error"

\* generate_webhook_signature, line 206: secret.encode raises on None
SignatureRaises(t) == ~t.webhook_secret

\* deliver_webhook_to_tenant, lines 90-158: sign, POST, classify
deliver_post(p) ==
    /\ procs[p].pc = "d_post"
    /\ IF SignatureRaises(tenants[procs[p].loc.tenant])
       THEN /\ Finish(p, procs[p].op, "AttributeError")
            /\ UNCHANGED <<posts, answers>>
       ELSE \E out \in Outcomes :
            \E code \in (IF out = "response" THEN ResponseCodes ELSE {NULL}) :
               /\ posts' = [posts EXCEPT ![procs[p].eid] =
                                Append(@, procs[p].loc.attempts)]
               /\ answers' = [answers EXCEPT ![procs[p].eid] = Append(@, code)]
               /\ procs' = [procs EXCEPT
                      ![p].pc = "d_save",
                      ![p].loc = AfterOutcome(procs[p].loc, out, code, Now),
                      ![p].resp = code,
                      ![p].err = ErrorOf(out, code)]
               /\ UNCHANGED last
    /\ UNCHANGED <<tenants, events, logs, ops, overlapped, mark, webhook_events, celery, sweeps, wire>>

\* deliver_webhook_to_tenant, line 161: save() writes every column
deliver_save(p) ==
    /\ procs[p].pc = "d_save"
    /\ events' = [events EXCEPT ![procs[p].eid] = procs[p].loc]
    /\ procs' = [procs EXCEPT ![p].pc = "d_log"]
    /\ UNCHANGED <<tenants, logs, posts, last, ops, overlapped, mark, webhook_events, celery, sweeps, answers, wire>>

\* mutant: the log row is numbered one too high
LogRow_OffByOne(e, row, code, err) ==
    [webhook_event |-> e, attempt_number |-> row.attempts + 1,
     response_code |-> code, error_message |-> err]

\* lines 164-175: the row of tenant_webhook_logs for this attempt
LogRow(e, row, code, err) ==
    [webhook_event |-> e, attempt_number |-> row.attempts,
     response_code |-> code, error_message |-> err]

\* deliver_webhook_to_tenant, lines 164-185: write the log and return
deliver_log(p) ==
    /\ procs[p].pc = "d_log"
    /\ logs' = [logs EXCEPT ![procs[p].eid] =
                    Append(@, LogRow(procs[p].eid, procs[p].loc,
                                     procs[p].resp, procs[p].err))]
    /\ Finish(p, procs[p].op, ReturnOf(procs[p].op))
    /\ UNCHANGED <<tenants, events, posts, ops, overlapped, mark, webhook_events, celery, sweeps, answers, wire>>

----------------------------------------------------------------------------
\* mutant: the reset also drops the payload
ResetForRetry_ClearsPayload(row) ==
    [row EXCEPT !.status = "pending", !.attempts = 0, !.payload_json = "none"]

\* retry_webhook_event, lines 162-164: the reset of the local object
ResetForRetry(row) == [row EXCEPT !.status = "pending", !.attempts = 0]

\* mutant: the lookup is by id only
OwnedBy_AnyTenant(t, e) == e \in DOMAIN events

\* TenantWebhookEvent.objects.get(id=event_id, tenant=tenant) finds a row:
\* webhook_management_views.py lines 93 and 148
OwnedBy(t, e) == e \in DOMAIN events /\ events[e].tenant = t

\* get_webhook_event, lines 90-98: the detail request of tenant t for id e
\* and its lookup, scoped to the tenant
get_webhook_event(p, t, e) ==
    /\ CanStart(p)
    /\ Begin(p, [IdleProc EXCEPT !.op = "detail", !.pc = "g_respond",
                  !.tenant = t, !.eid = e,
                  !.resp = IF OwnedBy(t, e) THEN 200 ELSE 404])
    /\ UNCHANGED <<tenants, events, logs, posts, mark, webhook_events, celery, sweeps, answers, wire>>

\* get_webhook_event, lines 95-125: the response
get_webhook_event_respond(p) ==
    /\ procs[p].pc = "g_respond"
    /\ Finish(p, "detail", IF procs[p].resp = 200 THEN "200" ELSE "404")
    /\ UNCHANGED <<tenants, events, logs, posts, ops, overlapped, mark, webhook_events, celery, sweeps, answers, wire>>

\* mutant: the view does not look at the status it finds
retry_webhook_event_NoSentCheck(p, t, e) ==
    /\ CanStart(p)
    /\ IF ~OwnedBy(t, e)
       THEN Answer(p, "retry", "404")
       ELSE Begin(p, [IdleProc EXCEPT !.op = "retry", !.pc = "r_save",
                      !.tenant = t, !.eid = e,
                      !.loc = ResetForRetry(events[e]),
                      !.was = [status |-> events[e].status,
                               attempts |-> events[e].attempts]])
    /\ UNCHANGED <<tenants, events, logs, posts, mark, webhook_events, celery, sweeps, answers, wire>>

\* retry_webhook_event, lines 145-164: lookup scoped to the tenant, sent check;
\* was keeps the status and attempts the view found, for the record
retry_webhook_event(p, t, e) ==
    /\ CanStart(p)
    /\ IF ~OwnedBy(t, e)
       THEN Answer(p, "retry", "404")
       ELSE IF events[e].status = "sent"
       THEN Answer(p, "retry", "400")
       ELSE Begin(p, [IdleProc EXCEPT !.op = "retry", !.pc = "r_save",
                      !.tenant = t, !.eid = e,
                      !.loc = ResetForRetry(events[e]),
                      !.was = [status |-> events[e].status,
                               attempts |-> events[e].attempts]])
    /\ UNCHANGED <<tenants, events, logs, posts, mark, webhook_events, celery, sweeps, answers, wire>>

\* retry_webhook_event, line 165: event.save()
retry_webhook_event_save(p) ==
    /\ procs[p].pc = "r_save"
    /\ events' = [events EXCEPT ![procs[p].eid] = procs[p].loc]
    /\ procs' = [procs EXCEPT ![p].pc = "d_get", ![p].loc = NoRow]
    /\ mark' = [mark EXCEPT ![procs[p].eid] =
                    [logs |-> Len(logs[procs[p].eid]),
                     posts |-> Len(posts[procs[p].eid])]]
    /\ UNCHANGED <<tenants, logs, posts, last, ops, overlapped, webhook_events, celery, sweeps, answers, wire>>

----------------------------------------------------------------------------
\* WebhookEventAdmin, webhooks/admin.py: a row of webhook_events is added by
\* hand, with the default attempts = 0; the table is not shared with the
\* tenant events, so the row is taken to be added before the first of them
admin_add_webhook_event(t, st) ==
    /\ webhook_events = <<>>
    /\ AllIdle /\ ops = 0 /\ ops < MaxOps
    /\ ops' = ops + 1
    /\ webhook_events' = <<[tenant |-> t, status |-> st, attempts |-> 0,
                             last_attempt_at |-> NULL]>>
    /\ UNCHANGED <<tenants, events, logs, posts, procs, last, overlapped,
                   mark, celery, sweeps, answers, wire>>

\* core/tasks.py lines 73-76: the rows the sweep selects
failed_events ==
    {l \in DOMAIN webhook_events :
        /\ webhook_events[l].status \in {"failed", "retrying"}
        /\ webhook_events[l].attempts < 3}

\* the worker is at most n tasks behind on every row the sweep selects
QueueBelow(n) == \A l \in failed_events : celery[l] < n

\* retry_failed_webhooks, core/tasks.py lines 66-81: one run of the sweep,
\* started by the beat whether or not a row is selected; it queues one task
\* per selected row and logs how many (line 81)
retry_failed_webhooks ==
    /\ celery' = [l \in LegacyIds |->
                    IF l \in failed_events THEN celery[l] + 1 ELSE celery[l]]
    /\ sweeps' = 1 - sweeps
    /\ UNCHANGED <<core, webhook_events>>

\* core/tasks.py lines 28-30: the row after the attempt is counted
Attempted(row) ==
    [row EXCEPT !.attempts = row.attempts + 1,
                !.last_attempt_at = Now,
                !.status = IF row.attempts + 1 > 1 THEN "retrying" ELSE "pending"]

\* send_webhook_event, core/tasks.py lines 11-63: one queued task runs; the
\* endpoint answers 200 (ok) or anything else, or the request raises
send_webhook_event(l) ==
    /\ celery[l] > 0
    /\ celery' = [celery EXCEPT ![l] = @ - 1]
    /\ IF l \notin DOMAIN webhook_events
          \/ ~tenants[webhook_events[l].tenant].webhook_url
       THEN UNCHANGED webhook_events
       ELSE \E ok \in BOOLEAN :
               webhook_events' = [webhook_events EXCEPT ![l] =
                   [Attempted(webhook_events[l]) EXCEPT
                       !.status = IF ok THEN "sent" ELSE "failed"]]
    /\ UNCHANGED <<core, sweeps>>

----------------------------------------------------------------------------
\* the Tenant rows: t1 has a webhook URL and a secret, t2 registered without
\* a URL, t3 has a URL and a NULL webhook_secret (the column is nullable)
RegisteredTenants ==
    [t \in Tenants |->
        [webhook_url |-> t # "t2", webhook_secret |-> t # "t3"]]

Init ==
    /\ tenants = RegisteredTenants
    /\ events = <<>>
    /\ logs = [e \in EventIds |-> <<>>]
    /\ posts = [e \in EventIds |-> <<>>]
    /\ procs = [p \in Procs |-> IdleProc]
    /\ last = NoResult
    /\ ops = 0
    /\ overlapped = FALSE
    /\ mark = [e \in EventIds |-> [logs |-> 0, posts |-> 0]]
    /\ webhook_events = <<>>
    /\ celery = [l \in LegacyIds |-> 0]
    /\ sweeps = 0
    /\ answers = [e \in EventIds |-> <<>>]
    /\ wire = NoWire

Next ==
    \/ \E p \in Procs, t \in Tenants, et \in EventTypes, pl \in Payloads, k \in Keys :
            queue_webhook_event(p, t, et, pl, k)
    \/ \E p \in Procs : queue_webhook_event_create(p)
    \/ \E p \in Procs, e \in EventIds : deliver_webhook_to_tenant(p, e)
    \/ \E p \in Procs : deliver_get(p)
    \/ \E p \in Procs : deliver_begin(p)
    \/ \E p \in Procs : deliver_post(p)
    \/ \E p \in Procs : deliver_save(p)
    \/ \E p \in Procs : deliver_log(p)
    \/ \E p \in Procs, t \in Tenants, e \in EventIds : retry_webhook_event(p, t, e)
    \/ \E p \in Procs : retry_webhook_event_save(p)

Spec == Init /\ [][Next]_vars

\* the tenants whose events the admin adds to webhook_events: one with a
\* webhook_url and one without, which is all the outcome of
\* send_webhook_event depends on
LegacyTenants == {"t1", "t2"}

\* the operations one after the other, on one idempotency key, together with
\* the periodic sweep and the tasks it queues, which run between them
NextSweep ==
    \/ \E p \in Procs, t \in Tenants, et \in EventTypes, pl \in Payloads :
            AllIdle /\ queue_webhook_event(p, t, et, pl, 1)
    \/ \E p \in Procs : queue_webhook_event_create(p)
    \/ \E p \in Procs, e \in EventIds : AllIdle /\ deliver_webhook_to_tenant(p, e)
    \/ \E p \in Procs : deliver_get(p)
    \/ \E p \in Procs : deliver_begin(p)
    \/ \E p \in Procs : deliver_post(p)
    \/ \E p \in Procs : deliver_save(p)
    \/ \E p \in Procs : deliver_log(p)
    \/ \E p \in Procs, t \in Tenants, e \in EventIds :
            AllIdle /\ retry_webhook_event(p, t, e)
    \/ \E p \in Procs : retry_webhook_event_save(p)
    \/ \E t \in LegacyTenants, st \in STATUS_CHOICES : admin_add_webhook_event(t, st)
    \/ AllIdle /\ QueueBelow(MaxQueued) /\ retry_failed_webhooks
    \/ \E l \in LegacyIds : AllIdle /\ send_webhook_event(l)

SweepSpec == Init /\ [][NextSweep]_vars

\* an operation in flight goes on to its end
Step(p) ==
    \/ queue_webhook_event_create(p)
    \/ deliver_get(p)
    \/ deliver_begin(p)
    \/ deliver_post(p)
    \/ deliver_save(p)
    \/ deliver_log(p)
    \/ retry_webhook_event_save(p)

\* the beat keeps running the sweep, the worker runs every queued task, and
\* every request that was started is served to its end
FairSpec ==
    /\ SweepSpec
    /\ WF_vars(AllIdle /\ QueueBelow(MaxQueued) /\ retry_failed_webhooks)
    /\ \A l \in LegacyIds : WF_vars(AllIdle /\ send_webhook_event(l))
    /\ \A p \in Procs : WF_vars(Step(p))

\* tasks of one row the worker may be behind when the sweeps overlap
MaxTasks == 2

\* the beat and the worker next to the provider webhooks: events are enqueued
\* and delivered one after the other, the sweep runs at any time, also before
\* the worker has run the tasks of the run before
NextBeat ==
    \/ \E p \in Procs, t \in Tenants, et \in EventTypes, pl \in Payloads :
            AllIdle /\ queue_webhook_event(p, t, et, pl, 1)
    \/ \E p \in Procs : queue_webhook_event_create(p)
    \/ \E p \in Procs : deliver_get(p)
    \/ \E p \in Procs : deliver_begin(p)
    \/ \E p \in Procs : deliver_post(p)
    \/ \E p \in Procs : deliver_save(p)
    \/ \E p \in Procs : deliver_log(p)
    \/ \E t \in LegacyTenants, st \in STATUS_CHOICES : admin_add_webhook_event(t, st)
    \/ AllIdle /\ QueueBelow(MaxTasks) /\ retry_failed_webhooks
    \/ \E l \in LegacyIds : AllIdle /\ send_webhook_event(l)

BeatSpec == Init /\ [][NextBeat]_vars

TypeOK ==
    /\ \A i \in DOMAIN events : events[i].status \in EVENT_STATUS_CHOICES
    /\ ops \in 0..MaxOps

----------------------------------------------------------------------------
\* the rows of tenant_webhook_events that carry idempotency key k
RowsWithKey(k) == {i \in DOMAIN events : events[i].idempotency_key = k}

\* the log rows of event e written since its creation or last manual retry
LogsSinceReset(e) == SubSeq(logs[e], mark[e].logs + 1, Len(logs[e]))

\* worker p is inside a deliver call on event e, past the intermediate save
\* and before its log row is written
BeforeLog(p, e) ==
    procs[p].eid = e /\ procs[p].pc \in {"d_post", "d_save", "d_log"}

\* C1: an enqueue call made while a row with its idempotency key exists
\* returns null; it leaves that single row, the other rows, the log rows and
\* the list of HTTP requests as they were.
C1_DuplicateEnqueueIsNoOp ==
    [][\A p \in Procs, t \in Tenants, et \in EventTypes, pl \in Payloads,
          k \in Keys :
          (queue_webhook_event(p, t, et, pl, k) /\ RowsWithKey(k) # {}) =>
              /\ last' = [op |-> "enqueue", ret |-> "null"]
              /\ Cardinality(RowsWithKey(k)) = 1
              /\ events' = events
              /\ logs' = logs
              /\ posts' = posts
              /\ procs' = procs]_vars

\* a second enqueue with the key of a delivered event has returned null
C1_Witness ==
    /\ last = [op |-> "enqueue", ret |-> "null"]
    /\ Len(events) = 1
    /\ Len(posts[1]) = 1
    /\ Len(logs[1]) = 1

\* C2: a deliver call that finds attempts >= 3 issues no HTTP request and
\* writes no log row; it saves the event with status failed, changes nothing
\* else, and returns.
C2_CapEnforced ==
    [][\A p \in Procs :
          (/\ procs[p].pc = "d_begin"
           /\ procs'[p] # procs[p]
           /\ procs[p].loc.attempts >= 3) =>
              /\ posts' = posts
              /\ logs' = logs
              /\ procs'[p] = IdleProc
              /\ events' = [events EXCEPT ![procs[p].eid] =
                                [procs[p].loc EXCEPT !.status = "failed"]]
              /\ (~overlapped =>
                    events' = [events EXCEPT ![procs[p].eid].status = "failed"])
      ]_vars

\* a fourth deliver call on an event with three failed attempts has returned
C2_Witness ==
    \E e \in DOMAIN events :
        /\ tenants[events[e].tenant].webhook_url
        /\ events[e].attempts = 3
        /\ events[e].status = "failed"
        /\ Len(posts[e]) = 3
        /\ Len(logs[e]) = 3
        /\ last = [op |-> "deliver", ret |-> "returned"]

\* a manual retry writes its reset of event e
ManualRetrySaves(e) ==
    \E p \in Procs :
        /\ procs[p].pc = "r_save"
        /\ procs[p].eid = e
        /\ procs'[p].pc = "d_get"

\* C3 (as stated): no operation ever stores a smaller attempts value than the
\* one persisted before, the manual retry included.
C3_AttemptsNeverDecrease ==
    [][\A e \in DOMAIN events :
          events'[e].attempts >= events[e].attempts]_vars

\* C3 (amended): with the operations run one after the other, enqueue, deliver
\* and the retry sweep never lower attempts; the only step that does is the
\* save of a manual retry, which stores 0.
C3_AttemptsDecreaseOnlyByManualRetry ==
    [][\A e \in DOMAIN events :
          \/ events'[e].attempts >= events[e].attempts
          \/ ManualRetrySaves(e) /\ events'[e].attempts = 0]_vars

\* a manual retry has reset an event that had been attempted and logged,
\* while the sweep had a row of its own to retry
C3_Witness ==
    \E e \in DOMAIN events :
        /\ mark[e].logs >= 1
        /\ events[e].attempts = 0
        /\ events[e].status = "pending"
        /\ webhook_events # <<>>

\* C4 (as stated): in every persisted state the number of log rows of an
\* event equals its attempts counter.
C4_LogRowsEqualAttempts ==
    \A e \in DOMAIN events : Len(logs[e]) = events[e].attempts

\* C4 (amended): with the operations run one after the other, the log rows
\* written for an event since its creation or its last manual retry are never
\* more than its attempts counter, and are fewer in the intermediate state
\* persisted before the HTTP call, until the log row of the attempt is written.
C4_LogRowsSinceResetAtMostAttempts ==
    ~overlapped =>
        \A e \in DOMAIN events :
            /\ Len(LogsSinceReset(e)) <= events[e].attempts
            /\ (\E p \in Procs : BeforeLog(p, e)) =>
                    Len(LogsSinceReset(e)) < events[e].attempts

\* after a manual retry of an event with a log row, the next attempt is in
\* its intermediate state: attempts is 1 again, its log row is not written yet
C4_Witness ==
    /\ ~overlapped
    /\ \E e \in DOMAIN events :
        /\ mark[e].logs >= 1
        /\ Len(logs[e]) = mark[e].logs
        /\ events[e].attempts = 1
        /\ events[e].status = "sending"

\* the attempt numbers of a sequence of log rows
AttemptNumbers(rows) == {rows[i].attempt_number : i \in DOMAIN rows}

\* C5 (as stated): the attempt numbers of an event's log rows are pairwise
\* distinct and exactly 1..n.
C5_AttemptNumbersContiguous ==
    \A e \in DOMAIN events :
        /\ AttemptNumbers(logs[e]) = 1..Len(logs[e])
        /\ Cardinality(AttemptNumbers(logs[e])) = Len(logs[e])

\* C5 (amended): with the operations run one after the other, the log rows
\* written for an event since its creation or its last manual retry carry
\* strictly increasing attempt numbers between 1 and the attempts counter; a
\* manual retry restarts the numbering at 1.
C5_AttemptNumbersIncreaseSinceReset ==
    ~overlapped =>
        \A e \in DOMAIN events :
            LET rows == LogsSinceReset(e)
            IN /\ \A i \in DOMAIN rows :
                    /\ rows[i].attempt_number >= 1
                    /\ rows[i].attempt_number <= events[e].attempts
               /\ \A i, j \in DOMAIN rows :
                    i < j => rows[i].attempt_number < rows[j].attempt_number

\* an event was attempted, manually retried and attempted again: it has two
\* log rows numbered 1
C5_Witness ==
    /\ ~overlapped
    /\ \E e \in DOMAIN events :
        /\ Len(logs[e]) = 2
        /\ mark[e].logs = 1
        /\ logs[e][1].attempt_number = 1
        /\ logs[e][2].attempt_number = 1

\* C6: succeeded_at is set if and only if status is sent.
C6_SucceededIffSent ==
    \A e \in DOMAIN events :
        (events[e].succeeded_at # NULL) <=> (events[e].status = "sent")

\* event e has used up its attempts without a 2xx answer and no call is
\* working on it
Exhausted(e) ==
    /\ e \in DOMAIN events
    /\ tenants[events[e].tenant].webhook_url
    /\ events[e].attempts >= 3
    /\ events[e].status = "pending"
    /\ \A i \in DOMAIN logs[e] : ~IsSuccess(logs[e][i].response_code)
    /\ \A p \in Procs : procs[p].eid # e

\* C7: an event whose attempts reached the cap without a 2xx answer
\* eventually has status failed, the sweep being run again and again.
C7_ExhaustedEventuallyFailed ==
    \A e \in EventIds :
        Exhausted(e) ~> (e \in DOMAIN events /\ events[e].status = "failed")

\* C8: no failure of a delivery attempt leaves enqueue or deliver as an
\* exception, and every log row of a failed attempt carries an error message.
C8_DeliveryFailuresNeverRaise ==
    /\ last.ret # "AttributeError"
    /\ \A e \in DOMAIN events : \A i \in DOMAIN logs[e] :
            ~IsSuccess(logs[e][i].response_code) =>
                logs[e][i].error_message # "null"

\* C9: no two rows of tenant_webhook_events share an idempotency key.
C9_IdempotencyKeyUnique ==
    \A i, j \in DOMAIN events :
        i # j => events[i].idempotency_key # events[j].idempotency_key

\* two enqueue calls with one key overlapped, both passed the existence
\* check, and the insert of the second was rejected
C9_Witness ==
    /\ overlapped
    /\ last = [op |-> "enqueue", ret |-> "IntegrityError"]
    /\ \E k \in Keys : Cardinality(RowsWithKey(k)) = 1

\* C10: an enqueue call whose key collides never raises: it returns null.
C10_DuplicateNeverRaises ==
    last.op = "enqueue" => last.ret # "IntegrityError"

\* the attempt numbers of the HTTP requests issued for event e since its
\* creation or last manual retry, in the order they were issued
PostsSinceReset(e) == SubSeq(posts[e], mark[e].posts + 1, Len(posts[e]))

\* C11: under any interleaving of deliver invocations on one event, no two
\* HTTP requests are made from the same value of the attempts counter, and the
\* request of attempt N+1 is issued only after the log row of attempt N is
\* written.
C11_AttemptsStrictlyOrdered ==
    \A e \in DOMAIN events :
        /\ \A i, j \in DOMAIN PostsSinceReset(e) :
                i < j => PostsSinceReset(e)[i] < PostsSinceReset(e)[j]
        /\ Len(PostsSinceReset(e)) <= Len(LogsSinceReset(e)) + 1

\* the row of an event whose attempts are used up and that a further deliver
\* call has marked failed (lines 76-79); first attempted at time 1
ExhaustedEvent(t) ==
    [NewEvent(t, "payment.succeeded", "d1", 1) EXCEPT
        !.status = "failed", !.attempts = MAX_ATTEMPTS, !.sent_at = 1,
        !.response_code = IF SignatureRaises(RegisteredTenants[t])
                          THEN NULL ELSE 300]

\* the log rows of its three attempts, each answered with a non-2xx status:
\* lines 164-175; none was written if the signature raised (line 206)
ExhaustedLogs(t) ==
    IF SignatureRaises(RegisteredTenants[t])
    THEN <<>>
    ELSE [n \in 1..MAX_ATTEMPTS |->
            LogRow(1, [attempts |-> n], 300, ErrorOf("response", 300))]

\* the table holds one exhausted event of a tenant with a URL; the operations
\* that led there are not counted, the clock stands at 1
InitExhausted ==
    \E t \in {u \in Tenants : RegisteredTenants[u].webhook_url} :
        /\ tenants = RegisteredTenants
        /\ events = <<ExhaustedEvent(t)>>
        /\ logs = [e \in EventIds |-> IF e = 1 THEN ExhaustedLogs(t) ELSE <<>>]
        /\ posts = [e \in EventIds |->
                        IF e = 1 THEN [n \in DOMAIN ExhaustedLogs(t) |-> n]
                        ELSE <<>>]
        /\ procs = [p \in Procs |-> IdleProc]
        /\ last = NoResult
        /\ ops = 1
        /\ overlapped = FALSE
        /\ mark = [e \in EventIds |-> [logs |-> 0, posts |-> 0]]
        /\ webhook_events = <<>>
        /\ celery = [l \in LegacyIds |-> 0]
        /\ sweeps = 0
        /\ answers = [e \in EventIds |->
                        IF e = 1 THEN [n \in DOMAIN ExhaustedLogs(t) |-> 300]
                        ELSE <<>>]
        /\ wire = NoWire

\* enqueue, deliver, manual retry and the detail view, one operation after
\* the other
NextSeq ==
    \/ \E p \in Procs, t \in Tenants, et \in EventTypes, pl \in Payloads, k \in Keys :
            AllIdle /\ queue_webhook_event(p, t, et, pl, k)
    \/ \E p \in Procs : queue_webhook_event_create(p)
    \/ \E p \in Procs, e \in EventIds : AllIdle /\ deliver_webhook_to_tenant(p, e)
    \/ \E p \in Procs : deliver_get(p)
    \/ \E p \in Procs : deliver_begin(p)
    \/ \E p \in Procs : deliver_post(p)
    \/ \E p \in Procs : deliver_save(p)
    \/ \E p \in Procs : deliver_log(p)
    \/ \E p \in Procs, t \in Tenants, e \in EventIds :
            AllIdle /\ retry_webhook_event(p, t, e)
    \/ \E p \in Procs : retry_webhook_event_save(p)
    \/ \E p \in Procs, t \in Tenants, e \in EventIds :
            AllIdle /\ get_webhook_event(p, t, e)
    \/ \E p \in Procs : get_webhook_event_respond(p)

ExhaustedSpec == InitExhausted /\ [][NextSeq]_vars

\* C12: a manual retry of an event found failed with attempts = 3, for a
\* tenant with a URL, stores attempts = 0 and status pending, issues exactly
\* one HTTP request and ends with attempts = 1 (operations not overlapping).
C12_ManualRetryOfExhaustedEvent ==
    [][\A p \in Procs :
        ( /\ ~overlapped
          /\ procs[p].op = "retry"
          /\ procs[p].was = [status |-> "failed", attempts |-> 3]
          /\ tenants[procs[p].tenant].webhook_url ) =>
            LET e == procs[p].eid
                requests == Len(posts'[e]) - mark'[e].posts
            IN /\ procs[p].pc = "r_save" =>
                    /\ events'[e].status = "pending"
                    /\ events'[e].attempts = 0
               /\ procs'[p].op = "idle" =>
                    /\ requests = 1
                    /\ events'[e].attempts = 1
               /\ requests <= 1]_vars

\* C13: a deliver call that finds the tenant without webhook_url stores
\* status failed and returns: no HTTP request, no log row, attempts as it
\* was; an enqueue for such a tenant returns the event, failed, without log
\* rows.
C13_NoUrlFailsWithoutAttempt ==
    [][\A p \in Procs :
        ( /\ procs[p].pc = "d_begin"
          /\ procs'[p].pc # "d_begin"
          /\ ~tenants[procs[p].loc.tenant].webhook_url ) =>
            LET e == procs[p].eid
            IN /\ events'[e].status = "failed"
               /\ events'[e].attempts = events[e].attempts
               /\ posts' = posts
               /\ logs' = logs
               /\ procs'[p].op = "idle"
               /\ procs[p].op = "enqueue" =>
                    /\ last' = [op |-> "enqueue", ret |-> "event"]
                    /\ logs'[e] = <<>>]_vars

\* an enqueue for the tenant without a URL has returned: its event is failed,
\* never attempted and has no log row
C13_Witness ==
    /\ last = [op |-> "enqueue", ret |-> "event"]
    /\ \E e \in DOMAIN events :
        /\ ~tenants[events[e].tenant].webhook_url
        /\ events[e].status = "failed"
        /\ events[e].attempts = 0
        /\ logs[e] = <<>>
        /\ posts[e] = <<>>

\* C14: a deliver call on a pending event below the cap stores sending, and
\* after an answer with a status in [200,300) stores sent, succeeded_at and
\* the response code; after any other answer it stores pending. The call
\* appends one log row, which carries the response code, in its last step.
C14_DeliverOutcome ==
    [][\A p \in Procs :
        LET e == procs[p].eid
            code == procs[p].resp
        IN /\ ( /\ procs[p].pc = "d_begin" /\ procs'[p].pc = "d_post"
                /\ procs[p].loc.status = "pending" ) =>
                    events'[e].status = "sending"
           /\ (procs[p].pc = "d_save" /\ procs'[p].pc = "d_log") =>
                IF 200 <= code /\ code < 300
                THEN /\ events'[e].status = "sent"
                     /\ events'[e].succeeded_at # NULL
                     /\ events'[e].response_code = code
                ELSE events'[e].status = "pending"
           /\ (procs[p].pc = "d_log" /\ procs'[p].pc = "idle") =>
                /\ Len(logs'[e]) = Len(logs[e]) + 1
                /\ logs'[e][Len(logs'[e])].response_code = code
           /\ (procs'[p] # procs[p] /\ procs[p].pc # "d_log") =>
                logs' = logs]_vars

\* one event was delivered on its first attempt with a 200 answer, another
\* was answered 300 and is pending; each has the log row of its attempt
C14_Witness ==
    /\ ~overlapped
    /\ AllIdle
    /\ \E e \in DOMAIN events :
        /\ events[e].status = "sent"
        /\ events[e].attempts = 1
        /\ events[e].succeeded_at # NULL
        /\ events[e].response_code = 200
        /\ Len(logs[e]) = 1
        /\ logs[e][1].response_code = 200
    /\ \E e \in DOMAIN events :
        /\ events[e].status = "pending"
        /\ events[e].attempts = 1
        /\ Len(logs[e]) = 1
        /\ logs[e][1].response_code = 300

\* the endpoint of event e failed on its first k calls and answered with a
\* 2xx status on call k+1, the last so far
FailedThenAnswered(e, k) ==
    /\ Len(answers[e]) = k + 1
    /\ \A i \in 1..k : ~(200 <= answers[e][i] /\ answers[e][i] < 300)
    /\ 200 <= answers[e][k + 1] /\ answers[e][k + 1] < 300

\* C15: when the endpoint fails k times (k = 1, 2) and then answers 2xx,
\* the k+1-th of the sequential deliver calls on a fresh event ends with the
\* event sent, attempts = k+1, and k+1 log rows numbered 1..k+1 of which the
\* first k record the failures and the last the success.
C15_FailuresThenSuccess ==
    [][\A p \in Procs : \A k \in {1, 2} :
        LET e == procs[p].eid
        IN ( /\ ~overlapped
             /\ procs[p].pc = "d_log" /\ procs'[p].pc = "idle"
             /\ mark[e] = [logs |-> 0, posts |-> 0]
             /\ FailedThenAnswered(e, k) ) =>
                /\ events'[e].status = "sent"
                /\ events'[e].attempts = k + 1
                /\ Len(logs'[e]) = k + 1
                /\ \A i \in 1..(k + 1) : logs'[e][i].attempt_number = i
                /\ \A i \in 1..k :
                        /\ logs'[e][i].error_message # "null"
                        /\ logs'[e][i].response_code = answers[e][i]
                /\ logs'[e][k + 1].error_message = "null"
                /\ logs'[e][k + 1].response_code = answers[e][k + 1]]_vars

\* two failures, one of them a transport error, then a 200: the event is
\* sent on its third attempt
C15_Witness ==
    /\ ~overlapped
    /\ AllIdle
    /\ \E e \in DOMAIN events :
        /\ mark[e] = [logs |-> 0, posts |-> 0]
        /\ FailedThenAnswered(e, 2)
        /\ NULL \in {answers[e][1], answers[e][2]}
        /\ events[e].status = "sent"
        /\ events[e].attempts = 3
        /\ Len(logs[e]) = 3

----------------------------------------------------------------------------
\* the signer: generate_webhook_signature, verify_webhook_signature and the
\* request that deliver_webhook_to_tenant prepares (lines 90-126)

\* webhook secrets, keys and numbers of a payload, members of a payload
Secrets == {"whsec_1", "whsec_2"}
JsonKeys == {"a", "b"}
JsonNumbers == {1, 2}
MaxMembers == 2

\* JSON values: a number, a string, or an object whose members keep the
\* order they were inserted in, as a Python dict does
Num(n) == [t |-> "num", n |-> n, s |-> "", o |-> <<>>]
Str(str) == [t |-> "str", n |-> 0, s |-> str, o |-> <<>>]
Obj(members) == [t |-> "obj", n |-> 0, s |-> "", o |-> members]
Member(k, v) == [key |-> k, value |-> v]

\* the payloads of the model: objects of up to MaxMembers numbers
FlatDicts ==
    UNION {{Obj([i \in 1..m |-> Member(f[i][1], Num(f[i][2]))]) :
                f \in {g \in [1..m -> JsonKeys \X JsonNumbers] :
                        \A i, j \in 1..m : i # j => g[i][1] # g[j][1]}} :
           m \in 0..MaxMembers}

\* the order of the keys as Python compares strings
KeyRank(k) ==
    CASE k = "a" -> 1
      [] k = "b" -> 2
      [] k = "created_at" -> 3
      [] k = "data" -> 4
      [] k = "event" -> 5
      [] k = "id" -> 6

\* sort_keys=True: the members in the order of their keys
SortedByKey(members) ==
    LET n == Len(members)
        perm == CHOOSE f \in [1..n -> 1..n] :
                    \A i, j \in 1..n :
                        i < j => KeyRank(members[f[i]].key) < KeyRank(members[f[j]].key)
    IN [i \in 1..n |-> members[perm[i]]]

\* json.dumps(value, separators=(item_separator, key_separator),
\* sort_keys=sort_keys): the text, as the sequence of its pieces
RECURSIVE dumps(_, _, _, _)
dumps(value, item_separator, key_separator, sort_keys) ==
    CASE value.t = "num" -> <<ToString(value.n)>>
      [] value.t = "str" -> <<"\"", value.s, "\"">>
      [] OTHER ->
            LET ms == IF sort_keys THEN SortedByKey(value.o) ELSE value.o
                text(i) ==
                    (IF i > 1 THEN <<item_separator>> ELSE <<>>)
                    \o <<"\"", ms[i].key, "\"", key_separator>>
                    \o dumps(ms[i].value, item_separator, key_separator, sort_keys)
                RECURSIVE join(_)
                join(i) == IF i > Len(ms) THEN <<>> ELSE text(i) \o join(i + 1)
            IN <<"{">> \o join(1) \o <<"}">>

\* str.encode('utf-8'): json.dumps escapes what is not ASCII, so every
\* character of the text is one byte
encode(text) == text

\* hmac.new(key, msg, hashlib.sha256).hexdigest(): a digest is told apart by
\* its key and its message
hmac_new(key, msg) == [key |-> key, msg |-> msg]

\* a payload handed to the signer: a dict, or a str
DictPayload(value) == [kind |-> "dict", dict |-> value, text |-> <<>>]
StrPayload(text) == [kind |-> "str", dict |-> Obj(<<>>), text |-> text]

\* mutant: the keys are not sorted before signing
generate_webhook_signature_Unsorted(payload, secret) ==
    hmac_new(encode(secret),
             encode(IF payload.kind = "dict"
                    THEN dumps(payload.dict, ",", ":", FALSE)
                    ELSE payload.text))

\* generate_webhook_signature, lines 188-211
generate_webhook_signature(payload, secret) ==
    hmac_new(encode(secret),
             encode(IF payload.kind = "dict"
                    THEN dumps(payload.dict, ",", ":", TRUE)
                    ELSE payload.text))

\* verify_webhook_signature, lines 214-228
verify_webhook_signature(payload, signature, secret) ==
    generate_webhook_signature(payload, secret) = signature

\* lines 91-96: the dict that is signed and sent
full_payload(id, event_type, created_at, data) ==
    Obj(<<Member("id", Num(id)), Member("event", Str(event_type)),
          Member("created_at", Str(created_at)), Member("data", data)>>)

\* requests.post(url, json=full_payload, ...), lines 120-125: requests
\* serializes the dict with json.dumps and its default separators and order
request_body(json) == encode(dumps(json, ", ", ": ", FALSE))

\* deliver_webhook_to_tenant, lines 90-126: the request of one attempt
deliver_request(id, event_type, data, secret) ==
    /\ wire.op = "none"
    /\ wire' = [NoWire EXCEPT
            !.op = "send",
            !.secret = secret,
            !.signature = generate_webhook_signature(
                DictPayload(full_payload(id, event_type, "2025-01-01T00:00:00", data)),
                secret),
            !.body = request_body(
                full_payload(id, event_type, "2025-01-01T00:00:00", data))]
    /\ UNCHANGED <<tenants, events, logs, posts, procs, last, ops, overlapped,
                   mark, webhook_events, celery, sweeps, answers>>

\* the payloads given to sign and verify: the dicts, and the texts a receiver
\* may hold of them
SignedPayloads ==
    {DictPayload(d) : d \in FlatDicts}
    \cup {StrPayload(dumps(d, ", ", ": ", FALSE)) : d \in FlatDicts}
    \cup {StrPayload(dumps(d, ",", ":", TRUE)) : d \in FlatDicts}

\* the members of a dict as a set: two dicts are equal when these are
MembersOf(value) == {<<value.o[i].key, value.o[i].value.n>> : i \in DOMAIN value.o}

\* whether two payloads of one type are the same payload
SamePayload(p, q) ==
    /\ p.kind = q.kind
    /\ IF p.kind = "dict"
       THEN MembersOf(p.dict) = MembersOf(q.dict)
       ELSE p.text = q.text

\* a signature is made of payload p with secret s and verified against
\* payload q with secret r
verify_signed(p, s, q, r) ==
    /\ wire.op = "none"
    /\ wire' = [NoWire EXCEPT
            !.op = "verify",
            !.kind = IF p.kind = q.kind THEN p.kind ELSE "mixed",
            !.same = SamePayload(p, q),
            !.signed_with = s,
            !.given_with = r,
            !.signature = generate_webhook_signature(p, s),
            !.body = IF q.kind = "dict" THEN dumps(q.dict, ", ", ": ", FALSE)
                     ELSE q.text,
            !.result = verify_webhook_signature(
                            q, generate_webhook_signature(p, s), r)]
    /\ UNCHANGED <<tenants, events, logs, posts, procs, last, ops, overlapped,
                   mark, webhook_events, celery, sweeps, answers>>

NextSign ==
    \/ \E id \in EventIds, et \in EventTypes, data \in FlatDicts, secret \in Secrets :
            deliver_request(id, et, data, secret)
    \/ \E p \in SignedPayloads, q \in SignedPayloads, s \in Secrets, r \in Secrets :
            verify_signed(p, s, q, r)

SignSpec == Init /\ [][NextSign]_vars

\* C16: the X-Webhook-Signature header of a request is the HMAC-SHA256, keyed
\* with the tenant's secret, of the bytes of the request body.
C16_SignatureCoversSentBody ==
    wire.op = "send" => wire.signature = hmac_new(encode(wire.secret), wire.body)

\* C17: verify accepts a signature with the payload and the secret it was
\* made of, and rejects it with another payload or another secret.
C17_VerifyAcceptsExactlyTheSigned ==
    (wire.op = "verify" /\ wire.kind # "mixed") =>
        (wire.result <=> (wire.same /\ wire.signed_with = wire.given_with))

\* a dict signed with its keys in one order was verified, and accepted, with
\* the keys in another order and the same secret
C17_Witness ==
    /\ wire.op = "verify"
    /\ wire.kind = "dict"
    /\ wire.same
    /\ wire.signed_with = wire.given_with
    /\ wire.signature.msg # wire.body
    /\ Len(wire.body) = Len(dumps(Obj(<<Member("b", Num(1)), Member("a", Num(2))>>), ", ", ": ", FALSE))
    /\ wire.result

\* C18: one run of the retry sweep invokes deliver exactly once for every
\* event that is failed or pending with attempts < 3, and for no other event.
C18_SweepDeliversEachEligibleOnce ==
    [][sweeps' # sweeps =>
        \A e \in EventIds :
            (/\ e \in DOMAIN events
             /\ events[e].status \in {"failed", "pending"}
             /\ events[e].attempts < MAX_ATTEMPTS)
            <=> Cardinality({p \in Procs :
                                /\ procs[p] = IdleProc
                                /\ procs'[p].op = "deliver"
                                /\ procs'[p].eid = e}) = 1]_vars

\* C19: however often the sweep runs, and also when it runs again before the
\* deliveries it dispatched have run, no event is attempted more than three
\* times: attempts stays at most 3, and so do the requests since the event
\* was created or last reset by hand.
C19_SweepNeverExceedsCap ==
    /\ \A e \in DOMAIN events :
            /\ events[e].attempts <= MAX_ATTEMPTS
            /\ Len(PostsSinceReset(e)) <= MAX_ATTEMPTS
    /\ \A l \in DOMAIN webhook_events :
            webhook_events[l].attempts <= MAX_ATTEMPTS

\* webhook_delivery.py lines 177-185: the delays, in seconds, after the
\* first, second and third attempt
retry_delays == <<300, 1800, 7200>>

\* C20: the sweep re-attempts no event before the backoff interval of its
\* attempt count has elapsed since its most recent attempt.
C20_SweepHonoursBackoff ==
    [][\A l \in DOMAIN webhook_events :
            (celery'[l] > celery[l] /\ webhook_events[l].attempts \in 1..3) =>
                Now - webhook_events[l].last_attempt_at
                    >= retry_delays[webhook_events[l].attempts]]_vars

\* C21: once an event exists, no step of deliver, of the sweep or of the
\* manual retry changes its tenant, event_type, payload or idempotency_key.
C21_IdentityFieldsImmutable ==
    [][\A e \in DOMAIN events :
            /\ e \in DOMAIN events'
            /\ events'[e].tenant = events[e].tenant
            /\ events'[e].event_type = events[e].event_type
            /\ events'[e].payload_json = events[e].payload_json
            /\ events'[e].idempotency_key = events[e].idempotency_key]_vars

\* an event was attempted, reset by a manual retry and attempted again
C21_Witness ==
    \E e \in DOMAIN events :
        /\ mark[e].posts >= 1
        /\ Len(posts[e]) > mark[e].posts
        /\ events[e].event_type = "payment.succeeded"
        /\ events[e].payload_json = "d1"

\* the deliver call of p is past the entry checks of lines 58-79
PassedEntry(p) == procs[p].pc \in {"d_post", "d_save", "d_log"}

\* C22: a deliver call that passed the entry checks returns having appended
\* exactly one log row, numbered with the attempts counter as this call
\* incremented it, whatever the outcome; a call that exits early appends none.
C22_OneLogRowPerPassedCall ==
    [][\A p \in Procs :
        LET e == procs[p].eid
        IN /\ (PassedEntry(p) /\ procs'[p].pc = "idle") =>
                /\ Len(logs'[e]) = Len(logs[e]) + 1
                /\ logs'[e][Len(logs'[e])].attempt_number = procs[p].loc.attempts
           /\ (PassedEntry(p) /\ procs'[p].pc \notin {"idle", procs[p].pc}) =>
                logs' = logs
           /\ (procs[p].pc = "d_begin" /\ procs'[p].pc = "idle") =>
                logs' = logs]_vars

\* the process that runs a deliver call dies between the intermediate save
\* of line 88 and the request of line 120
crash(p) ==
    /\ procs[p].pc = "d_post"
    /\ Finish(p, procs[p].op, "crashed")
    /\ UNCHANGED <<tenants, events, logs, posts, ops, overlapped, mark,
                   webhook_events, celery, sweeps, answers, wire>>

NextCrash ==
    \/ NextSweep
    \/ \E p \in Procs : crash(p)

\* as FairSpec, with calls that may die on the way: the beat keeps running
\* the sweep, the worker runs every queued task, and a call that does not die
\* is served to its end
CrashSpec ==
    /\ Init /\ [][NextCrash]_vars
    /\ WF_vars(AllIdle /\ QueueBelow(MaxQueued) /\ retry_failed_webhooks)
    /\ \A l \in LegacyIds : WF_vars(AllIdle /\ send_webhook_event(l))
    /\ \A p \in Procs : WF_vars(Step(p))

\* C23: an event left in sending with attempts < 3 by a deliver call that was
\* interrupted does not stay in sending forever: the sweep gets it delivered
\* again.
C23_InterruptedEventuallyRedelivered ==
    \A e \in EventIds :
        (/\ AllIdle
         /\ e \in DOMAIN events
         /\ events[e].status = "sending"
         /\ events[e].attempts < MAX_ATTEMPTS)
        ~> (e \in DOMAIN events /\ events[e].status # "sending")

\* the event of a tenant with a URL and a secret during its third attempt:
\* two attempts were answered with a non-2xx status, the third deliver call
\* has stored attempts = 3 and status sending (lines 81-88)
ThirdAttemptEvent ==
    [NewEvent("t1", "payment.succeeded", "d1", 1) EXCEPT
        !.status = "sending", !.attempts = 3, !.sent_at = 1,
        !.response_code = 300]

\* the third deliver call is in flight, before its requests.post; the
\* operations that led there are not counted, the clock stands at 1
InitThirdInFlight ==
    /\ tenants = RegisteredTenants
    /\ events = <<ThirdAttemptEvent>>
    /\ logs = [e \in EventIds |->
                IF e = 1
                THEN [n \in 1..2 |->
                        LogRow(1, [attempts |-> n], 300, ErrorOf("response", 300))]
                ELSE <<>>]
    /\ posts = [e \in EventIds |-> IF e = 1 THEN <<1, 2>> ELSE <<>>]
    /\ procs = [p \in Procs |->
                IF p = 1
                THEN [IdleProc EXCEPT !.op = "deliver", !.pc = "d_post",
                                      !.eid = 1, !.loc = ThirdAttemptEvent]
                ELSE IdleProc]
    /\ last = NoResult
    /\ ops = 1
    /\ overlapped = FALSE
    /\ mark = [e \in EventIds |-> [logs |-> 0, posts |-> 0]]
    /\ webhook_events = <<>>
    /\ celery = [l \in LegacyIds |-> 0]
    /\ sweeps = 0
    /\ answers = [e \in EventIds |-> IF e = 1 THEN <<300, 300>> ELSE <<>>]
    /\ wire = NoWire

\* the operations that may follow, in any interleaving with that call
InFlightSpec == InitThirdInFlight /\ [][Next]_vars

\* C24: an event whose status is failed stays failed and gets no HTTP request
\* by any step of a deliver call or of the sweep; only the steps of a manual
\* retry of that event post it or move it out of failed.
C24_FailedIsTerminalForAutomatic ==
    [][\A e \in DOMAIN events :
        events[e].status = "failed" =>
            \/ /\ events'[e].status = "failed"
               /\ posts'[e] = posts[e]
            \/ \E p \in Procs :
                /\ procs[p].op = "retry"
                /\ procs[p].eid = e
                /\ procs'[p] # procs[p]]_vars

\* C25: sent_at is null until the first attempt of an event, is stamped with
\* the current time by the step that counts that attempt, and is never
\* changed afterwards, by further attempts, early exits or a manual retry and
\* the delivery that follows it.
C25_SentAtIsFirstAttemptTime ==
    [][\A e \in DOMAIN events :
        IF events[e].sent_at = NULL
        THEN IF events'[e].attempts > events[e].attempts
             THEN events'[e].sent_at = Now
             ELSE events'[e].sent_at = NULL
        ELSE events'[e].sent_at = events[e].sent_at]_vars

\* C26: a manual retry of an event whose status is sent is answered 400 and
\* goes no further: no retry works on an event it found sent, and the request
\* answered 400 changes no event, no log row and issues no HTTP request.
C26_RetryOfSentRejected ==
    [][/\ \A p \in Procs :
            (procs[p].op = "idle" /\ procs'[p].op = "retry") =>
                events[procs'[p].eid].status # "sent"
       /\ (last' = [op |-> "retry", ret |-> "400"] /\ last' # last) =>
            /\ \E e \in DOMAIN events : events[e].status = "sent"
            /\ UNCHANGED <<events, logs, posts, procs, mark>>]_vars

\* the manual retry of an event that was delivered was answered 400; the
\* event is still sent, with the one attempt and the one log row it had
C26_Witness ==
    /\ last = [op |-> "retry", ret |-> "400"]
    /\ \E e \in DOMAIN events :
        /\ events[e].status = "sent"
        /\ events[e].attempts = 1
        /\ Len(logs[e]) = 1
        /\ Len(posts[e]) = 1

\* C27: a detail or manual-retry request of a tenant for an event of another
\* tenant is answered not-found, and no step of such a request changes a
\* field of that event, adds a log row to it or posts it.
C27_TenantIsolation ==
    [][\A p \in Procs :
        /\ (procs[p].pc = "g_respond" /\ procs'[p].pc = "idle") =>
            (last'.ret = "200" <=>
                (/\ procs[p].eid \in DOMAIN events
                 /\ events[procs[p].eid].tenant = procs[p].tenant))
        /\ (procs[p].op = "idle" /\ procs'[p].op = "retry") =>
            events[procs'[p].eid].tenant = procs'[p].tenant
        /\ (last' = [op |-> "retry", ret |-> "404"] /\ last' # last) =>
            UNCHANGED <<events, logs, posts, procs, mark>>
        /\ (procs[p].op \in {"retry", "detail"} /\ procs'[p] # procs[p]) =>
            \A e \in DOMAIN events :
                events[e].tenant # procs[p].tenant =>
                    /\ events'[e] = events[e]
                    /\ logs'[e] = logs[e]
                    /\ posts'[e] = posts[e]]_vars

\* a tenant's detail request for the exhausted event of another tenant has
\* been looked up and is about to be answered 404
C27_Witness ==
    \E p \in Procs :
        /\ procs[p].pc = "g_respond"
        /\ procs[p].eid \in DOMAIN events
        /\ events[procs[p].eid].tenant # procs[p].tenant
        /\ events[procs[p].eid].status = "failed"
        /\ procs[p].resp = 404

----------------------------------------------------------------------------
\* the inbound provider handlers that notify a tenant

\* Stripe (stripe_webhook_views.py), Paystack (paystack_webhook_views.py),
\* the MoMo callback (momo_webhook_views.py) and the MoMo status check
\* (payments/views.py)
Providers == {"stripe", "paystack", "momo_callback", "momo_status"}

\* def queue_webhook_event(tenant, event_type, payload, idempotency_key),
\* webhook_delivery.py line 16: four parameters, none with a default
Parameters == {"tenant", "event_type", "payload", "idempotency_key"}

\* the keyword arguments each handler calls queue_webhook_event with
Keywords(provider) ==
    CASE provider = "stripe" ->
            {"tenant", "event_type", "payload", "idempotency_key"}
      [] provider = "paystack" -> {"tenant", "event_type", "data"}
      [] OTHER -> {"tenant", "event_type", "payload"}

\* a Python call binds when every keyword names a parameter and every
\* parameter without a default is given; otherwise it raises TypeError
Binds(keywords) == keywords \subseteq Parameters /\ Parameters \subseteq keywords

\* a handler processes provider event k for tenant t and calls
\* queue_webhook_event; the TypeError of a call that does not bind is caught
\* by the handler's except Exception
provider_handler(p, provider, t, et, pl, k) ==
    IF Binds(Keywords(provider))
    THEN queue_webhook_event(p, t, et, pl, k)
    ELSE /\ CanStart(p)
         /\ Answer(p, provider, "TypeError")
         /\ UNCHANGED <<tenants, events, logs, posts, mark, webhook_events,
                        celery, sweeps, answers, wire>>

\* the provider events processed one after the other, each with the
\* immediate delivery of the event it enqueues
NextProviders ==
    \/ \E p \in Procs, provider \in Providers, t \in Tenants,
          et \in EventTypes, pl \in Payloads, k \in Keys :
            AllIdle /\ provider_handler(p, provider, t, et, pl, k)
    \/ \E p \in Procs : queue_webhook_event_create(p)
    \/ \E p \in Procs : deliver_get(p)
    \/ \E p \in Procs : deliver_begin(p)
    \/ \E p \in Procs : deliver_post(p)
    \/ \E p \in Procs : deliver_save(p)
    \/ \E p \in Procs : deliver_log(p)

ProviderSpec == Init /\ [][NextProviders]_vars

\* C28: every provider handler that notifies a tenant reaches enqueue with an
\* idempotency key of the provider event: none of them ends its call of
\* queue_webhook_event with an exception and without an event.
C28_HandlersEnqueueWithKey ==
    \A provider \in Providers : last # [op |-> provider, ret |-> "TypeError"]

\* C29: sent is absorbing: once the status of an event is sent, no step of a
\* deliver call, of the sweep or of a manual retry posts the event again or
\* changes its status, attempts or succeeded_at.
C29_SentIsAbsorbing ==
    [][\A e \in DOMAIN events :
        events[e].status = "sent" =>
            /\ events'[e].status = "sent"
            /\ events'[e].attempts = events[e].attempts
            /\ events'[e].succeeded_at = events[e].succeeded_at
            /\ posts'[e] = posts[e]]_vars

\* C30: a successful delivery is never lost: when an attempt of an event was
\* answered 2xx and no deliver or manual-retry call on the event is in
\* flight, the event is sent and has succeeded_at set, whatever the
\* interleaving of the calls was.
C30_SuccessNeverLost ==
    \A e \in DOMAIN events :
        (/\ \E i \in DOMAIN answers[e] : IsSuccess(answers[e][i])
         /\ \A p \in Procs : procs[p].eid # e)
        => (events[e].status = "sent" /\ events[e].succeeded_at # NULL)
====
